---- MODULE Spec2Model ----
(***************************************************************************)
(* Model of src/scripts/Compiler.ts: the Compiler class, whose compileAll  *)
(* discovers the Solidity sources of contractsDir and, per source, decides *)
(* whether the JSON artifact of the unit is stale for the configured       *)
(* network, compiles it and merges the result into the artifact.           *)
(*                                                                         *)
(* Strings the code takes apart (file names, source text, compiler         *)
(* messages) are sequences of tokens; a file's contents are a tagged value *)
(* so that reading, parsing and serialising are separate conversions.      *)
(***************************************************************************)
EXTENDS Naturals, Sequences, FiniteSets, Bags, TLC

\* Number of times the caller invokes compileAll in one behaviour.
MaxRuns == 2

\* Longest list of messages solc.compile returns.
MaxErrors == 2

Runs == 1..MaxRuns

SOLIDITY_FILE_EXTENSION == ".sol"

\* Base names of the source files of the tree (keys of `sources`).
UnitA == <<"A", ".sol">>
UnitB == <<"B", ".sol">>
Units == {UnitA, UnitB}

\* Network ids that occur as keys of an artifact's `networks`.
Net50 == 50
Net42 == 42

(***************************************************************************)
(* Source texts.  A text is a sequence of tokens; "solidity " is the word  *)
(* followed by one whitespace character, "^" the caret, and the version    *)
(* tokens are digit groups of the form d.d.d .                             *)
(***************************************************************************)
VersionToks == {"0.4.11", "0.9.9"}

TextGood        == <<"pragma ", "solidity ", "^", "0.4.11", ";contract">>
TextNoPragma    == <<"contract">>
TextUnsupported == <<"pragma ", "solidity ", "0.9.9", ";contract">>
Texts == {TextGood, TextNoPragma, TextUnsupported}

\* A text that imports a file of a subdirectory, a file of another
\* directory and a file without an extension.
TextImports ==
    <<"pragma ", "solidity ", "^", "0.4.11", ";", "import ", "sub/", "B", ".sol",
      ";", "import ", "other/", "C", ".sol", ";", "import ", "constructor", ";",
      "contract">>

\* A value and an exception, as the result of a call that may throw.
Ok(v)     == [ok |-> TRUE, val |-> v]
Throw(e)  == [ok |-> FALSE, err |-> e]

\* Where /(?:solidity\s\^?)(d.d.d)/ matches starting at token i.
VersionMatchAt(source, i) ==
    /\ source[i] = "solidity "
    /\ \/ (i + 1 <= Len(source) /\ source[i + 1] \in VersionToks)
       \/ (i + 2 <= Len(source) /\ source[i + 1] = "^" /\ source[i + 2] \in VersionToks)

parseSolidityVersion(source) ==
    LET hits == {i \in 1..Len(source) : VersionMatchAt(source, i)}
    IN  IF hits = {}
        THEN Throw("Could not find Solidity version in source")
        ELSE LET i == CHOOSE j \in hits : \A k \in hits : j <= k
             IN  Ok(IF source[i + 1] = "^" THEN source[i + 2] ELSE source[i + 1])

\* The registry of compiler binaries, keyed by the exact version string.
binPaths == [v \in {"0.4.11"} |-> <<"soljson-v", v, ".js">>]

\* require(`./solc/solc_bin/${binPaths[solcVersion]}`)
RequireSolcBin(solcVersion) ==
    IF solcVersion \in DOMAIN binPaths
    THEN Ok(binPaths[solcVersion])
    ELSE Throw("Cannot find module")

\* `0x${ethUtil.sha3(source).toString('hex')}`
SourceHash(source) == <<"0x", source>>

\* path.basename(p, ext) of a name without directories.
BasenameExt(name, ext) ==
    IF Len(name) > 0 /\ name[Len(name)] = ext
    THEN SubSeq(name, 1, Len(name) - 1)
    ELSE name

\* ContractName keeping the extension instead of the stem.
ContractName_KeepsExtension(contractBaseName) ==
    SubSeq(contractBaseName, Len(contractBaseName), Len(contractBaseName))

ContractName(contractBaseName) == BasenameExt(contractBaseName, SOLIDITY_FILE_EXTENSION)

(***************************************************************************)
(* Compiler messages.  Tokens ending in "/" are directory components.      *)
(***************************************************************************)
DirToks == {"sub/", "dir/", "other/"}

MsgSubA   == <<"sub/", "dir/", "A", ".sol", ":3: Warning: x">>
MsgOtherA == <<"other/", "A", ".sol", ":3: Warning: x">>
MsgB      == <<"B", ".sol", ":1: Warning: y">>
MsgNoPath == <<"Internal compiler error">>

\* Index of the last element of s that satisfies the test set, 0 if none.
LastIndexIn(s, toks) ==
    LET hits == {i \in 1..Len(s) : s[i] \in toks}
    IN  IF hits = {} THEN 0 ELSE CHOOSE j \in hits : \A k \in hits : k <= j

\* path.basename(p): what follows the last directory separator.
Basename(p) == SubSeq(p, LastIndexIn(p, DirToks) + 1, Len(p))

\* errMsg.match(/(.*\.sol)/)[0] is the text up to the last ".sol"; it is
\* replaced by its base name.
getNormalizedErrMsg(errMsg) ==
    LET last == LastIndexIn(errMsg, {SOLIDITY_FILE_EXTENSION})
    IN  IF last = 0
        THEN Throw("Could not find a path in error message")
        ELSE LET errPath == SubSeq(errMsg, 1, last)
             IN  Ok(Basename(errPath) \o SubSeq(errMsg, last + 1, Len(errMsg)))

(***************************************************************************)
(* Values that may be undefined (an unassigned `let`, a missing key).      *)
(***************************************************************************)
Undefined  == [def |-> FALSE]
Defined(v) == [def |-> TRUE, val |-> v]

\* {...a, ...b} of two objects; spreading undefined adds nothing.
EmptyObject == [k \in {} |-> k]
ObjectSpread(a, b) ==
    [k \in DOMAIN a \cup DOMAIN b |-> IF k \in DOMAIN b THEN b[k] ELSE a[k]]
SpreadOf(x) == IF x.def THEN x.val ELSE EmptyObject

\* The properties every object inherits from Object.prototype, as names.
ObjectPrototypeKeys == {<<"constructor">>}

\* obj[key] of an object created by a literal: the own property, else the
\* inherited one, else undefined.
PropertyOf(obj, key) ==
    IF key \in DOMAIN obj THEN Defined(obj[key])
    ELSE IF key \in ObjectPrototypeKeys THEN Defined(<<"function Object() { [native code] }">>)
    ELSE Undefined

(***************************************************************************)
(* The source tree.  A node is a file that can be read, a directory that   *)
(* can be listed (its entries in the order readdir returns them), or a     *)
(* node that can be neither read nor listed.                               *)
(***************************************************************************)
File(text)        == [kind |-> "file", text |-> text]
Dir(entries)      == [kind |-> "dir", entries |-> entries]
Blocked           == [kind |-> "blocked"]
Entry(name, node) == [name |-> name, node |-> node]

\* path.extname(name) === SOLIDITY_FILE_EXTENSION
HasSolidityExt(name) == Len(name) > 1 /\ name[Len(name)] = SOLIDITY_FILE_EXTENSION

\* readFileAsync(contentPath, {encoding: 'utf8'})
ReadSource(node) == IF node.kind = "file" THEN Ok(node.text) ELSE Throw("ENOENT")

\* MergeSources with the operands of the spread exchanged.
MergeSources_FirstWins(sources, nestedSources) == ObjectSpread(nestedSources, sources)

\* sources = {...sources, ...nestedSources}
MergeSources(sources, nestedSources) == ObjectSpread(sources, nestedSources)

\* AfterNested without the catch around the recursive call.
AfterNested_Propagates(sources, nested) ==
    IF nested.ok THEN Ok(MergeSources(sources, nested.val)) ELSE nested

\* `sources` after the recursive call for an entry has returned or thrown:
\* the throw is caught and logged.
AfterNested(sources, nested) ==
    IF nested.ok THEN Ok(MergeSources(sources, nested.val)) ELSE Ok(sources)

\* getContractSources(dirPath): the loop over the directory's entries, from
\* the `sources` gathered so far.
RECURSIVE getContractSources(_), VisitEntries(_, _)
VisitEntry(sources, entry) ==
    IF HasSolidityExt(entry.name)
    THEN LET read == ReadSource(entry.node)
         IN  IF read.ok
             THEN Ok(ObjectSpread(sources, entry.name :> read.val))
             ELSE Ok(sources)
    ELSE AfterNested(sources, getContractSources(entry.node))

VisitEntries(entries, sources) ==
    IF entries = <<>>
    THEN Ok(sources)
    ELSE LET visited == VisitEntry(sources, Head(entries))
         IN  IF visited.ok THEN VisitEntries(Tail(entries), visited.val) ELSE visited

getContractSources(dir) ==
    IF dir.kind # "dir"
    THEN Throw("No directory found")
    ELSE VisitEntries(dir.entries, EmptyObject)

\* The text discovery maps a unit of a tree to.
TextOf(dir, u) == getContractSources(dir).val[u]

\* The import paths of a text: what stands between "import " and ";".
ImportsOf(source) ==
    {SubSeq(source, i + 1, j - 1) :
        <<i, j>> \in {<<i, j>> \in (1..Len(source)) \X (1..Len(source)) :
                         /\ i < j /\ source[i] = "import " /\ source[j] = ";"
                         /\ \A k \in (i + 1)..(j - 1) : source[k] # ";"}}

\* The callback createFindImports(sources) returns, called with a path.
findImports(sources, importPath) ==
    LET contractBaseName == Basename(importPath)
        source == PropertyOf(sources, contractBaseName)
    IN  [contents |-> source]

(***************************************************************************)
(* Contents of an artifact file: none, text that is not JSON, or the JSON  *)
(* text of a value.                                                        *)
(***************************************************************************)
NoFile       == [kind |-> "absent"]
GarbageFile  == [kind |-> "garbage"]

\* JSON.stringify(value, JSON_REPLACER, NUMBER_OF_JSON_SPACES)
JSONStringify(value) == [kind |-> "json", value |-> value]

\* JSON.parse(text)
JSONParse(text) ==
    IF text.kind = "json" THEN Ok(text.value) ELSE Throw("SyntaxError")

\* readFileAsync(path, {encoding: 'utf8'})
ReadFile(file) ==
    IF file.kind = "absent" THEN Throw("ENOENT") ELSE Ok(file)

\* A ContractData as an earlier build left it in an artifact.
OldData(hash, optimizer, tag) ==
    [solc_version |-> "0.4.11", keccak256 |-> hash, optimizer_enabled |-> optimizer,
     abi |-> <<"abi", tag>>, unlinked_binary |-> <<"0x", tag>>, updated_at |-> 0]

StaleHash == <<"0x", <<"an earlier text">>>>

\* The artifact files a unit may have before the first run: none, text that
\* is not JSON, and artifacts of earlier builds of an earlier or of the
\* current text for one or both networks.
InitialArtifacts(contractBaseName, source) ==
    LET name  == ContractName(contractBaseName)
        other == OldData(SourceHash(source), 1, <<"other">>)
        fresh == OldData(SourceHash(source), 0, <<"fresh">>)
        old   == OldData(StaleHash, 0, <<"old">>)
    IN  { NoFile,
          GarbageFile,
          JSONStringify([contract_name |-> name]),
          JSONStringify([contract_name |-> name, networks |-> (Net42 :> other)]),
          JSONStringify([contract_name |-> name, networks |-> (Net50 :> fresh)]),
          JSONStringify([contract_name |-> name,
                         networks |-> (Net50 :> fresh) @@ (Net42 :> other)]),
          JSONStringify([contract_name |-> name,
                         networks |-> (Net50 :> old) @@ (Net42 :> fresh)]) }

(***************************************************************************)
(* The try block of a unit's task: read the artifact, parse it and decide  *)
(* whether the unit must be compiled.                                      *)
(***************************************************************************)
\* IsStale without the comparison of the optimizer flag.
IsStale_IgnoresOptimizer(oldNetworks, id, sourceHash, optimizer) ==
    \/ id \notin DOMAIN oldNetworks
    \/ oldNetworks[id].keccak256 # sourceHash

\* IsStale comparing the entry of every network of the artifact.
IsStale_AnyNetwork(oldNetworks, id, sourceHash, optimizer) ==
    \/ id \notin DOMAIN oldNetworks
    \/ \E n \in DOMAIN oldNetworks :
          \/ oldNetworks[n].keccak256 # sourceHash
          \/ oldNetworks[n].optimizer_enabled # optimizer

\* _.isUndefined(oldNetwork) || oldNetwork.keccak256 !== sourceHash ||
\* oldNetwork.optimizer_enabled !== this.optimizerEnabled
IsStale(oldNetworks, id, sourceHash, optimizer) ==
    \/ id \notin DOMAIN oldNetworks
    \/ oldNetworks[id].keccak256 # sourceHash
    \/ oldNetworks[id].optimizer_enabled # optimizer

LoadArtifact(file, id, sourceHash, optimizer) ==
    LET read == ReadFile(file)
    IN  IF ~read.ok
        THEN [currentArtifactString |-> Undefined, currentArtifact |-> Undefined,
              oldNetworks |-> Undefined, shouldCompile |-> TRUE]
        ELSE LET parsed == JSONParse(read.val)
             IN  IF ~parsed.ok
                 THEN [currentArtifactString |-> Defined(read.val),
                       currentArtifact |-> Undefined,
                       oldNetworks |-> Undefined, shouldCompile |-> TRUE]
                 ELSE IF "networks" \notin DOMAIN parsed.val
                 THEN [currentArtifactString |-> Defined(read.val),
                       currentArtifact |-> Defined(parsed.val),
                       oldNetworks |-> Undefined, shouldCompile |-> TRUE]
                 ELSE [currentArtifactString |-> Defined(read.val),
                       currentArtifact |-> Defined(parsed.val),
                       oldNetworks |-> Defined(parsed.val.networks),
                       shouldCompile |->
                           IsStale(parsed.val.networks, id, sourceHash, optimizer)]

(***************************************************************************)
(* The compile branch.                                                     *)
(***************************************************************************)
\* What solc.compile may return for a unit: `errors` (undefined or a list
\* of messages) and whether `contracts` holds the unit's contract.
Msgs == {MsgSubA, MsgOtherA, MsgB, MsgNoPath}
ErrorLists ==
    {Undefined} \cup
    {Defined(l) : l \in UNION {[1..n -> Msgs] : n \in 0..MaxErrors}}
CompilerOutputs == [errors : ErrorLists, hasContract : BOOLEAN]

\* IsUnseen without the look-up in `errors`.
IsUnseen_Always(errors, normalizedErrMsg) == TRUE

\* Whether the loop logs a normalized message, given the `errors` object.
IsUnseen(errors, normalizedErrMsg) == normalizedErrMsg \notin errors

\* The loop over compiled.errors: each normalized message not yet in
\* `errors` is recorded and logged; a message without a path throws.
\* `produced` are the normalized messages the loop went through.
RECURSIVE ReportErrors(_, _)
ReportErrors(list, errors) ==
    IF list = <<>>
    THEN [errors |-> errors, logged |-> <<>>, produced |-> {}, thrown |-> FALSE]
    ELSE LET normalized == getNormalizedErrMsg(Head(list))
         IN  IF ~normalized.ok
             THEN [errors |-> errors, logged |-> <<>>, produced |-> {}, thrown |-> TRUE]
             ELSE LET isNew == IsUnseen(errors, normalized.val)
                      rest  == ReportErrors(Tail(list),
                                            IF isNew THEN errors \cup {normalized.val}
                                                     ELSE errors)
                  IN  [rest EXCEPT !.logged = IF isNew THEN <<normalized.val>> \o @ ELSE @,
                                   !.produced = @ \cup {normalized.val}]

\* compiled.contracts[contractIdentifier], when solc has compiled the unit:
\* the interface as JSON text and the bytecode.
SolcContract(contractName, optimizer) ==
    [interface |-> JSONStringify(<<"abi", contractName>>),
     bytecode |-> <<"60", contractName, IF optimizer = 1 THEN "optimized" ELSE "plain">>]

\* NewContractData with the digest taken of the contract's interface.
NewContractData_HashesInterface(contract, solcVersion, sourceHash, optimizer, updatedAt) ==
    [solc_version |-> solcVersion, keccak256 |-> SourceHash(contract.interface.value),
     optimizer_enabled |-> optimizer,
     abi |-> JSONParse(contract.interface).val,
     unlinked_binary |-> <<"0x", contract.bytecode>>,
     updated_at |-> updatedAt]

\* The ContractData of a successful compilation.
NewContractData(contract, solcVersion, sourceHash, optimizer, updatedAt) ==
    [solc_version |-> solcVersion, keccak256 |-> sourceHash,
     optimizer_enabled |-> optimizer,
     abi |-> JSONParse(contract.interface).val,
     unlinked_binary |-> <<"0x", contract.bytecode>>,
     updated_at |-> updatedAt]

\* MergeArtifact without the spread of oldNetworks.
MergeArtifact_DropsOthers(loaded, contractName, id, contractData) ==
    IF loaded.currentArtifactString.def
    THEN ObjectSpread(SpreadOf(loaded.currentArtifact),
                      [networks |-> (id :> contractData)])
    ELSE [contract_name |-> contractName, networks |-> (id :> contractData)]

\* newArtifact: the old artifact with networks[id] replaced, or a new one.
MergeArtifact(loaded, contractName, id, contractData) ==
    IF loaded.currentArtifactString.def
    THEN ObjectSpread(SpreadOf(loaded.currentArtifact),
                      [networks |-> ObjectSpread(SpreadOf(loaded.oldNetworks),
                                                 id :> contractData)])
    ELSE [contract_name |-> contractName, networks |-> (id :> contractData)]

(***************************************************************************)
(* State.                                                                  *)
(***************************************************************************)
VARIABLES
    networkId,           \* this.networkId
    optimizerEnabled,    \* this.optimizerEnabled
    contractsDir,        \* the node at this.contractsDir
    artifactsDirExists,  \* whether this.artifactsDir exists
    artifacts,           \* contract name -> contents of <artifactsDir>/<name>.json
    calls,               \* run -> position of that compileAll call
    sources,             \* run -> the `sources` object of that call
    errors,              \* run -> the `errors` object of that call
    tasks,               \* run -> unit -> the unit's async callback
    sink,                \* run -> bag of the compiler messages logged
    now                  \* Date.now()

vars == <<networkId, optimizerEnabled, contractsDir, artifactsDirExists, artifacts,
          calls, sources, errors, tasks, sink, now>>

ArtifactNames == {ContractName(u) : u \in Units}

\* A callback that has not been started.  `loaded` is the artifact file as
\* the callback read it, `pending` the text it is writing; `compiled`,
\* `imports`, `hasContract`, `produced`, `logged` and `wrote` record what the
\* callback has done and what its compiler asked for and returned.
IdleTask ==
    [pc |-> "idle", loaded |-> NoFile, shouldCompile |-> FALSE, compiled |-> FALSE,
     imports |-> EmptyObject, hasContract |-> FALSE,
     produced |-> {}, logged |-> 0, pending |-> NoFile, reason |-> "", wrote |-> FALSE]

\* A contracts directory with the two units side by side, or none.
FlatDirs ==
    {Blocked} \cup
    {Dir(<<Entry(UnitA, File(a)), Entry(UnitB, File(b))>>) : a, b \in Texts}

\* The options, the source tree and the artifacts before the first call.
InitFiles ==
    /\ networkId \in {Net42, Net50}
    /\ optimizerEnabled \in {0, 1}
    /\ contractsDir \in FlatDirs
    /\ artifactsDirExists \in BOOLEAN
    /\ artifacts \in
          IF artifactsDirExists
          THEN LET text(u) == IF contractsDir.kind = "dir"
                              THEN TextOf(contractsDir, u) ELSE TextNoPragma
               IN  {a \in [ArtifactNames ->
                              UNION {InitialArtifacts(u, text(u)) : u \in Units}] :
                       \A u \in Units :
                           a[ContractName(u)] \in InitialArtifacts(u, text(u))}
          ELSE [ArtifactNames -> {NoFile}]
    /\ sources = [r \in Runs |-> EmptyObject]
    /\ errors = [r \in Runs |-> {}]
    /\ tasks = [r \in Runs |-> [u \in Units |-> IdleTask]]
    /\ sink = [r \in Runs |-> EmptyBag]
    /\ now = 1

\* The caller invokes compileAll once.
Init ==
    /\ InitFiles
    /\ calls = [r \in Runs |-> IF r = 1 THEN "notCalled" ELSE "never"]

(***************************************************************************)
(* compileAll.                                                             *)
(***************************************************************************)
\* createArtifactsDirIfDoesNotExist without the call of mkdirAsync.
createArtifactsDirIfDoesNotExist_NoMkdir(exists) == "discover"

\* createArtifactsDirIfDoesNotExist up to its await: where compileAll goes
\* on, given fs.existsSync(this.artifactsDir).
createArtifactsDirIfDoesNotExist(exists) == IF ~exists THEN "mkdir" ELSE "discover"

\* The caller invokes compileAll; a further call follows the return of the
\* one before.  The call runs up to its first await: an artifacts directory
\* that exists needs no mkdir.
CompileAllCall(r) ==
    /\ calls[r] = "notCalled"
    /\ r > 1 => calls[r - 1] \in {"resolved", "rejected"}
    /\ calls' = [calls EXCEPT ![r] = createArtifactsDirIfDoesNotExist(artifactsDirExists)]
    /\ UNCHANGED <<networkId, optimizerEnabled, contractsDir, artifactsDirExists,
                   artifacts, sources, errors, tasks, sink, now>>

\* createArtifactsDirIfDoesNotExist: mkdirAsync completes.
CreateArtifactsDir(r) ==
    /\ calls[r] = "mkdir"
    /\ artifactsDirExists' = TRUE
    /\ calls' = [calls EXCEPT ![r] = "discover"]
    /\ UNCHANGED <<networkId, optimizerEnabled, contractsDir, artifacts, sources,
                   errors, tasks, sink, now>>

\* The state of a callback that _.each has started: it runs up to its first
\* await, the read of the unit's artifact.
StartedTask == [IdleTask EXCEPT !.pc = "reading"]

\* getContractSources completes; on success _.each starts one callback per
\* key of `sources` and compileAll returns without awaiting them: its
\* promise resolves.
CompileAllDispatch(r) ==
    /\ calls[r] = "discover"
    /\ LET found == getContractSources(contractsDir)
       IN  IF ~found.ok
           THEN /\ calls' = [calls EXCEPT ![r] = "rejected"]
                /\ UNCHANGED <<sources, tasks>>
           ELSE /\ sources' = [sources EXCEPT ![r] = found.val]
                /\ tasks' = [tasks EXCEPT ![r] =
                                [u \in Units |->
                                    IF u \in DOMAIN found.val THEN StartedTask ELSE @[u]]]
                /\ calls' = [calls EXCEPT ![r] = "resolved"]
    /\ UNCHANGED <<networkId, optimizerEnabled, contractsDir, artifactsDirExists,
                   artifacts, errors, sink, now>>

(***************************************************************************)
(* A unit's callback.                                                      *)
(***************************************************************************)
\* RejectTask as a loop that awaits each callback and stops at a throw.
RejectTask_AbortsAll(runTasks, u, t, why) ==
    [v \in DOMAIN runTasks |->
        IF v = u THEN [t EXCEPT !.pc = "failed", !.reason = why]
        ELSE IF runTasks[v].pc \in {"reading", "writing"}
        THEN [runTasks[v] EXCEPT !.pc = "failed", !.reason = "Aborted"]
        ELSE runTasks[v]]

\* RejectTask of a callback that writes what it has before it throws.
RejectTask_StillWrites(runTasks, u, t, why) ==
    [runTasks EXCEPT ![u] = [t EXCEPT !.pc = "writing", !.reason = why,
                                      !.pending = GarbageFile]]

\* The callbacks of a run after the callback of unit u has thrown: its
\* promise is rejected, the other callbacks are not touched.
RejectTask(runTasks, u, t, why) ==
    [runTasks EXCEPT ![u] = [t EXCEPT !.pc = "failed", !.reason = why]]

\* SkipTask writing the artifact back as it was read.
SkipTask_Rewrites(t) == [t EXCEPT !.pc = "writing", !.pending = t.loaded]

\* The callback of a unit that need not be compiled: it ends.
SkipTask(t) == [t EXCEPT !.pc = "done"]

\* Adds the messages of a sequence to a bag.
RECURSIVE LogAll(_, _)
LogAll(bag, msgs) ==
    IF msgs = <<>> THEN bag ELSE LogAll(bag (+) SetToBag({Head(msgs)}), Tail(msgs))

\* The read of the artifact completes and the callback runs to its next
\* await (the write of the new artifact), to its end or to a throw.
TaskAfterRead(r, u) ==
    /\ tasks[r][u].pc = "reading"
    /\ LET source     == sources[r][u]
           sourceHash == SourceHash(source)
           loaded     == LoadArtifact(artifacts[ContractName(u)], networkId,
                                      sourceHash, optimizerEnabled)
           t0         == [tasks[r][u] EXCEPT !.loaded = artifacts[ContractName(u)],
                                             !.shouldCompile = loaded.shouldCompile]
           version    == parseSolidityVersion(source)
       IN  IF ~loaded.shouldCompile
           THEN /\ tasks' = [tasks EXCEPT ![r][u] = SkipTask(t0)]
                /\ UNCHANGED <<errors, sink, now>>
           ELSE IF ~version.ok
           THEN /\ tasks' = [tasks EXCEPT ![r] = RejectTask(@, u, t0, "VersionNotFound")]
                /\ UNCHANGED <<errors, sink, now>>
           ELSE IF ~RequireSolcBin(version.val).ok
           THEN /\ tasks' = [tasks EXCEPT ![r] = RejectTask(@, u, t0, "UnsupportedVersion")]
                /\ UNCHANGED <<errors, sink, now>>
           ELSE \E compiled \in CompilerOutputs :
                LET report == IF compiled.errors.def
                              THEN ReportErrors(compiled.errors.val, errors[r])
                              ELSE [errors |-> errors[r], logged |-> <<>>,
                                    produced |-> {}, thrown |-> FALSE]
                    t1 == [t0 EXCEPT !.compiled = TRUE,
                                     !.imports = [p \in ImportsOf(source) |->
                                                     findImports(sources[r], p)],
                                     !.hasContract = compiled.hasContract,
                                     !.produced = report.produced,
                                     !.logged = Len(report.logged)]
                    contractData == NewContractData(
                                        SolcContract(ContractName(u), optimizerEnabled),
                                        version.val, sourceHash, optimizerEnabled, now)
                    newArtifact == MergeArtifact(loaded, ContractName(u), networkId,
                                                 contractData)
                IN  /\ errors' = [errors EXCEPT ![r] = report.errors]
                    /\ sink' = [sink EXCEPT ![r] = LogAll(@, report.logged)]
                    /\ IF report.thrown
                       THEN /\ tasks' = [tasks EXCEPT ![r] =
                                            RejectTask(@, u, t1, "NoPathInMessage")]
                            /\ UNCHANGED now
                       ELSE IF ~compiled.hasContract
                       THEN /\ tasks' = [tasks EXCEPT ![r] =
                                            RejectTask(@, u, t1, "NoContractOutput")]
                            /\ UNCHANGED now
                       ELSE /\ tasks' = [tasks EXCEPT ![r][u] =
                                            [t1 EXCEPT !.pc = "writing",
                                                       !.pending = JSONStringify(newArtifact)]]
                            /\ now' = now + 1
    /\ UNCHANGED <<networkId, optimizerEnabled, contractsDir, artifactsDirExists,
                   artifacts, calls, sources>>

\* writeFileAsync completes: the artifact is replaced, or the write fails
\* and the callback throws.
TaskAfterWrite(r, u) ==
    /\ tasks[r][u].pc = "writing"
    /\ \E written \in BOOLEAN :
          IF written
          THEN /\ artifacts' = [artifacts EXCEPT ![ContractName(u)] = tasks[r][u].pending]
               /\ tasks' = [tasks EXCEPT ![r][u] = [@ EXCEPT !.pc = "done", !.wrote = TRUE]]
          ELSE /\ tasks' = [tasks EXCEPT ![r] = RejectTask(@, u, tasks[r][u], "WriteFailed")]
               /\ UNCHANGED artifacts
    /\ UNCHANGED <<networkId, optimizerEnabled, contractsDir, artifactsDirExists,
                   calls, sources, errors, sink, now>>

Next ==
    \/ \E r \in Runs : CompileAllCall(r)
    \/ \E r \in Runs : CreateArtifactsDir(r)
    \/ \E r \in Runs : CompileAllDispatch(r)
    \/ \E r \in Runs, u \in Units : TaskAfterRead(r, u)
    \/ \E r \in Runs, u \in Units : TaskAfterWrite(r, u)

Spec == Init /\ [][Next]_vars

\* The caller invokes compileAll MaxRuns times, each call after the one
\* before has returned, on a tree whose artifacts directory holds either no
\* artifact or an up-to-date one for each unit; unit B names no supported
\* compiler version.
InitSuccessive ==
    /\ InitFiles
    /\ networkId = Net50
    /\ optimizerEnabled = 0
    /\ contractsDir.kind = "dir"
    /\ TextOf(contractsDir, UnitB) # TextGood
    /\ \A u \in Units :
          artifacts[ContractName(u)] \in
              {NoFile, JSONStringify([contract_name |-> ContractName(u),
                                      networks |-> (Net50 :> OldData(
                                          SourceHash(TextOf(contractsDir, u)), 0,
                                          <<"fresh">>))])}
    /\ calls = [r \in Runs |-> "notCalled"]

SpecSuccessive == InitSuccessive /\ [][Next]_vars

\* Most entries of the contracts directory itself.
MaxEntries == 2

\* Entries of a contracts directory: unit A, unit B with imports, a file
\* A.sol that cannot be read, a file that is no source, a subdirectory with
\* another A.sol, a subdirectory with an entry that cannot be listed before a
\* directory that holds another B.sol, and a directory whose own name ends
\* in ".sol" and that holds a B.sol.
SampleEntries ==
    { Entry(UnitA, File(TextGood)),
      Entry(UnitB, File(TextImports)),
      Entry(UnitA, Blocked),
      Entry(<<"README">>, File(TextNoPragma)),
      Entry(<<"sub">>, Dir(<<Entry(UnitA, File(TextNoPragma))>>)),
      Entry(<<"deep">>, Dir(<<Entry(<<"locked">>, Blocked),
                             Entry(<<"dir">>, Dir(<<Entry(UnitB, File(TextGood))>>))>>)),
      Entry(<<"lib", ".sol">>, Dir(<<Entry(UnitB, File(TextNoPragma))>>)) }

\* The contracts directories of up to MaxEntries of these entries, in any
\* order and with no name twice, and one that cannot be listed.
SampleDirs ==
    {Blocked} \cup
    {Dir(es) : es \in {s \in UNION {[1..n -> SampleEntries] : n \in 0..MaxEntries} :
                          \A i, j \in DOMAIN s : i # j => s[i].name # s[j].name}}

\* The caller invokes compileAll once on one of these directories, with no
\* artifact written yet.
InitDiscovery ==
    /\ networkId = Net50
    /\ optimizerEnabled = 0
    /\ contractsDir \in SampleDirs
    /\ artifactsDirExists \in BOOLEAN
    /\ artifacts = [n \in ArtifactNames |-> NoFile]
    /\ sources = [r \in Runs |-> EmptyObject]
    /\ errors = [r \in Runs |-> {}]
    /\ tasks = [r \in Runs |-> [u \in Units |-> IdleTask]]
    /\ sink = [r \in Runs |-> EmptyBag]
    /\ now = 1
    /\ calls = [r \in Runs |-> IF r = 1 THEN "notCalled" ELSE "never"]

SpecDiscovery == InitDiscovery /\ [][Next]_vars


(***************************************************************************)
(* Vocabulary of the properties.                                           *)
(***************************************************************************)
\* The callback has run past the read of the artifact.
Decided(t) == t.pc \in {"writing", "done", "failed"}

\* An artifact file that parses to an object with a `networks` map.
HasNetworks(file) == file.kind = "json" /\ "networks" \in DOMAIN file.value

\* The entry of an artifact file for a network, if it has one.
EntryOf(file, id) ==
    IF HasNetworks(file) /\ id \in DOMAIN file.value.networks
    THEN Defined(file.value.networks[id])
    ELSE Undefined

\* The staleness of a unit as section 3 of the specification words it: no
\* entry for the unit and the network, or another digest, or another flag.
StaleFor(file, id, source, optimizer) ==
    LET entry == EntryOf(file, id)
    IN  \/ ~entry.def
        \/ entry.val.keccak256 # SourceHash(source)
        \/ entry.val.optimizer_enabled # optimizer

\* A compiler is registered for the version the text names.
HasBackend(source) ==
    /\ parseSolidityVersion(source).ok
    /\ parseSolidityVersion(source).val \in DOMAIN binPaths

(***************************************************************************)
(* C1: compileAll does not return (its promise does not resolve) before    *)
(* every callback it started has ended: whenever a call has resolved, no   *)
(* callback of that call is still reading or writing.                      *)
(***************************************************************************)
C1_ReturnsAfterAllTasks ==
    \A r \in Runs :
        calls[r] = "resolved" => \A u \in Units : tasks[r][u].pc \notin {"reading", "writing"}

(***************************************************************************)
(* C2: a write that replaces an artifact holding a networks map keeps the  *)
(* entry of every network other than networkId as it was, adds or removes  *)
(* no other network, and puts the entry of the unit's current text under   *)
(* networkId.                                                              *)
(***************************************************************************)
C2_Isolated(u) ==
    LET before == artifacts[ContractName(u)]
        after  == artifacts'[ContractName(u)]
    IN  (after # before /\ HasNetworks(before)) =>
            /\ HasNetworks(after)
            /\ DOMAIN after.value.networks = DOMAIN before.value.networks \cup {networkId}
            /\ \A id \in DOMAIN before.value.networks \ {networkId} :
                   after.value.networks[id] = before.value.networks[id]
            /\ after.value.networks[networkId].keccak256 = SourceHash(TextOf(contractsDir, u))

C2_CrossTargetIsolation == [][\A u \in Units : C2_Isolated(u)]_vars

\* A unit was compiled and written over an artifact that held an entry for
\* another network.
C2_Witness ==
    \E u \in Units :
        /\ tasks[1][u].wrote
        /\ HasNetworks(tasks[1][u].loaded)
        /\ DOMAIN tasks[1][u].loaded.value.networks \ {networkId} # {}
        /\ artifacts[ContractName(u)] = tasks[1][u].pending

(***************************************************************************)
(* C3 as stated: a callback invokes the compiler if and only if the unit   *)
(* is stale (no entry, another digest or another optimizer flag).          *)
(***************************************************************************)
C3_InvokedIffStale ==
    \A r \in Runs, u \in Units :
        Decided(tasks[r][u]) =>
            (tasks[r][u].compiled <=>
                StaleFor(tasks[r][u].loaded, networkId, TextOf(contractsDir, u),
                         optimizerEnabled))

(***************************************************************************)
(* C3 as amended: a callback takes the compile branch if and only if the   *)
(* unit is stale, and it invokes the compiler if and only if the unit is   *)
(* stale and its text names a version a compiler is registered for.        *)
(***************************************************************************)
C3_StaleIffAttempted ==
    \A r \in Runs, u \in Units :
        Decided(tasks[r][u]) =>
            LET stale == StaleFor(tasks[r][u].loaded, networkId, TextOf(contractsDir, u),
                                  optimizerEnabled)
            IN  /\ tasks[r][u].shouldCompile <=> stale
                /\ tasks[r][u].compiled <=> (stale /\ HasBackend(TextOf(contractsDir, u)))

\* One unit was found up to date and skipped; the other was stale, took the
\* compile branch and threw before it invoked a compiler.
C3_Witness ==
    \E u, v \in Units :
        /\ Decided(tasks[1][u]) /\ ~tasks[1][u].shouldCompile
        /\ Decided(tasks[1][v]) /\ tasks[1][v].shouldCompile
        /\ ~tasks[1][v].compiled /\ tasks[1][v].reason = "VersionNotFound"

(***************************************************************************)
(* C4: of two calls of compileAll in succession on an unchanged tree, the  *)
(* second invokes no compiler: a callback of the second call compiles only *)
(* a unit whose callback of the first call has failed.                     *)
(***************************************************************************)
C4_SecondRunCompilesNothing ==
    \A u \in Units : tasks[2][u].compiled => tasks[1][u].pc = "failed"

(***************************************************************************)
(* C5: a step in which the callback of one unit fails for a missing        *)
(* version, an unsupported version or missing compiler output changes no   *)
(* other callback of the call and no artifact, and a callback that is      *)
(* waiting for its read or its write can always go on.                     *)
(***************************************************************************)
UnitFailures == {"VersionNotFound", "UnsupportedVersion", "NoContractOutput"}

C5_OnlyThatUnit ==
    \A r \in Runs, u \in Units :
        (/\ tasks[r][u].pc # "failed"
         /\ tasks'[r][u].pc = "failed"
         /\ tasks'[r][u].reason \in UnitFailures)
        => /\ \A v \in Units \ {u} : tasks'[r][v] = tasks[r][v]
           /\ artifacts' = artifacts

C5_OthersGoOn ==
    \A r \in Runs, u \in Units :
        /\ tasks[r][u].pc = "reading" => ENABLED TaskAfterRead(r, u)
        /\ tasks[r][u].pc = "writing" => ENABLED TaskAfterWrite(r, u)
        /\ (\E v \in Units : tasks[r][v].pc = "failed") => tasks[r][u].pc # "idle"

C5_FailureIsolation == [][C5_OnlyThatUnit]_vars /\ []C5_OthersGoOn

\* One unit failed for one of the three reasons and the other one was
\* compiled and its artifact written.
C5_Witness ==
    \E u, v \in Units :
        /\ tasks[1][u].pc = "failed"
        /\ tasks[1][u].reason = "NoContractOutput"
        /\ tasks[1][v].wrote

(***************************************************************************)
(* C6: over an artifact file that cannot be read or cannot be parsed the   *)
(* callback writes the artifact it writes when there is no file: the       *)
(* unit's contract_name and a networks map with networkId alone.           *)
(***************************************************************************)
C6_MalformedTreatedAsAbsent ==
    \A r \in Runs, u \in Units :
        (tasks[r][u].wrote /\ tasks[r][u].loaded.kind \in {"absent", "garbage"})
        => /\ artifacts[ContractName(u)].kind = "json"
           /\ "contract_name" \in DOMAIN artifacts[ContractName(u)].value
           /\ artifacts[ContractName(u)].value.contract_name = ContractName(u)
           /\ DOMAIN artifacts[ContractName(u)].value.networks = {networkId}

(***************************************************************************)
(* C7: in one call every normalized message is logged at most once, and    *)
(* every message a callback's compiler produced has been logged exactly    *)
(* once; messages that differ in the directories before the file name have *)
(* the same normalized message.                                            *)
(***************************************************************************)
C7_ErrorDedup ==
    /\ \A r \in Runs :
          /\ \A m \in BagToSet(sink[r]) : CopiesIn(m, sink[r]) = 1
          /\ \A u \in Units : \A m \in tasks[r][u].produced : CopiesIn(m, sink[r]) = 1
    /\ getNormalizedErrMsg(MsgSubA) = getNormalizedErrMsg(MsgOtherA)

\* Both units' compilers produced the same normalized message.
C7_Witness ==
    /\ tasks[1][UnitA].produced \cap tasks[1][UnitB].produced # {}
    /\ tasks[1][UnitA].logged + tasks[1][UnitB].logged = 1

(***************************************************************************)
(* C8: a callback that finds its unit up to date ends without invoking     *)
(* the compiler, logging a message or writing, and the artifact stays as   *)
(* the callback read it.                                                   *)
(***************************************************************************)
C8_SkipHasNoSideEffects ==
    \A r \in Runs, u \in Units :
        (tasks[r][u].pc \notin {"idle", "reading"} /\ ~tasks[r][u].shouldCompile)
        => /\ tasks[r][u].pc = "done"
           /\ ~tasks[r][u].compiled
           /\ tasks[r][u].produced = {} /\ tasks[r][u].logged = 0
           /\ ~tasks[r][u].wrote /\ tasks[r][u].pending = NoFile
           /\ artifacts[ContractName(u)] = tasks[r][u].loaded

\* A unit was skipped while the other one was compiled and written.
C8_Witness ==
    \E u, v \in Units :
        /\ tasks[1][u].pc = "done" /\ ~tasks[1][u].shouldCompile
        /\ tasks[1][v].wrote

(***************************************************************************)
(* C9: two callbacks whose units have the same text and whose artifacts    *)
(* both hold a networks map with the same entry (or none) for networkId    *)
(* take the same decision, whatever the other entries are.                 *)
(***************************************************************************)
C9_TargetIndependence ==
    \A r \in Runs, u, v \in Units :
        (/\ Decided(tasks[r][u]) /\ Decided(tasks[r][v])
         /\ TextOf(contractsDir, u) = TextOf(contractsDir, v)
         /\ HasNetworks(tasks[r][u].loaded) /\ HasNetworks(tasks[r][v].loaded)
         /\ EntryOf(tasks[r][u].loaded, networkId) = EntryOf(tasks[r][v].loaded, networkId))
        => tasks[r][u].shouldCompile = tasks[r][v].shouldCompile

\* Two units read artifacts with the same entry for networkId and different
\* entries for the other network, and both were skipped.
C9_Witness ==
    /\ Decided(tasks[1][UnitA]) /\ Decided(tasks[1][UnitB])
    /\ TextOf(contractsDir, UnitA) = TextOf(contractsDir, UnitB)
    /\ EntryOf(tasks[1][UnitA].loaded, networkId).def
    /\ EntryOf(tasks[1][UnitA].loaded, networkId) = EntryOf(tasks[1][UnitB].loaded, networkId)
    /\ DOMAIN tasks[1][UnitA].loaded.value.networks
           # DOMAIN tasks[1][UnitB].loaded.value.networks
    /\ ~tasks[1][UnitA].shouldCompile

(***************************************************************************)
(* C10: the completion of compileAll tells its caller of a failed unit: a  *)
(* call that has resolved has no callback that failed.                     *)
(***************************************************************************)
C10_StatusReflectsFailures ==
    \A r \in Runs :
        calls[r] = "resolved" => \A u \in Units : tasks[r][u].pc # "failed"

(***************************************************************************)
(* C11: a compiler message without a file name does not abort the unit:    *)
(* no callback fails because one of its compiler's messages has no path.   *)
(***************************************************************************)
C11_NoPathDoesNotAbort ==
    \A r \in Runs, u \in Units :
        ~(tasks[r][u].pc = "failed" /\ tasks[r][u].reason = "NoPathInMessage")

\* The callback's compiler returned at least one message.
HadDiagnostics(t) == t.produced # {} \/ t.reason = "NoPathInMessage"

(***************************************************************************)
(* C12: a callback whose compiler returned messages together with the      *)
(* unit's contract goes on to merge and write the artifact: it is writing, *)
(* or has written, or the write itself has failed.                         *)
(***************************************************************************)
C12_DiagnosticsDoNotAbort ==
    \A r \in Runs, u \in Units :
        (tasks[r][u].compiled /\ tasks[r][u].hasContract /\ HadDiagnostics(tasks[r][u]))
        => \/ tasks[r][u].pc \in {"writing", "done"}
           \/ tasks[r][u].reason = "WriteFailed"

(***************************************************************************)
(* Files in the order discovery visits them, as the specification words    *)
(* it: the readable files with the source extension, depth first, each     *)
(* directory's entries in order.  `all` tells whether the files beneath a  *)
(* directory whose own name has the source extension are counted.          *)
(***************************************************************************)
RECURSIVE FilesInOrder(_, _)
FilesInOrder(entries, all) ==
    IF entries = <<>>
    THEN <<>>
    ELSE LET e == Head(entries)
             here == IF e.node.kind = "file" /\ HasSolidityExt(e.name)
                     THEN <<[name |-> e.name, text |-> e.node.text]>>
                     ELSE IF e.node.kind = "dir" /\ (all \/ ~HasSolidityExt(e.name))
                     THEN FilesInOrder(e.node.entries, all)
                     ELSE <<>>
         IN  here \o FilesInOrder(Tail(entries), all)

\* Base name -> the text of the last file of that name in a list of files.
LastWins(files) ==
    [n \in {files[i].name : i \in DOMAIN files} |->
        LET last == CHOOSE i \in DOMAIN files :
                        /\ files[i].name = n
                        /\ \A j \in DOMAIN files : files[j].name = n => j <= i
        IN  files[last].text]

\* No two files of the list have the same base name.
DistinctNames(files) ==
    \A i, j \in DOMAIN files : i # j => files[i].name # files[j].name

(***************************************************************************)
(* C13 as stated: discovery returns the readable source files of the tree  *)
(* at any depth, keyed by base name: as many entries as files when the     *)
(* base names are distinct, and for a base name that occurs twice the text *)
(* of the file visited last.                                               *)
(***************************************************************************)
C13_DiscoveryCompleteness ==
    \A r \in Runs :
        calls[r] = "resolved" =>
            LET files == FilesInOrder(contractsDir.entries, TRUE)
            IN  /\ sources[r] = LastWins(files)
                /\ DistinctNames(files) => Cardinality(DOMAIN sources[r]) = Len(files)

(***************************************************************************)
(* C13 as amended: the same of the readable source files that do not lie   *)
(* beneath a directory whose own name ends in the source extension.        *)
(***************************************************************************)
C13_CompleteOutsideSolDirs ==
    \A r \in Runs :
        calls[r] = "resolved" =>
            LET files == FilesInOrder(contractsDir.entries, FALSE)
            IN  /\ sources[r] = LastWins(files)
                /\ DistinctNames(files) => Cardinality(DOMAIN sources[r]) = Len(files)

\* Discovery has returned for a tree in which two files of different
\* directories and different texts share a base name.
C13_Witness ==
    /\ calls[1] = "resolved"
    /\ LET files == FilesInOrder(contractsDir.entries, FALSE)
       IN  \E i, j \in DOMAIN files :
              /\ i < j /\ files[i].name = files[j].name /\ files[i].text # files[j].text
              /\ sources[1][files[j].name] = files[j].text

(***************************************************************************)
(* C14: compileAll is rejected by discovery exactly when the contracts     *)
(* directory itself cannot be listed, and then no callback was started;    *)
(* otherwise every readable source file is discovered, whatever entries    *)
(* that are neither source files nor listable directories stand beside or  *)
(* before it.                                                              *)
(***************************************************************************)
C14_OnlyRootFailureIsFatal ==
    \A r \in Runs :
        /\ calls[r] \in {"resolved", "rejected"} =>
              (calls[r] = "rejected" <=> contractsDir.kind # "dir")
        /\ calls[r] = "rejected" => \A u \in Units : tasks[r][u].pc = "idle"
        /\ calls[r] = "resolved" =>
              LET files == FilesInOrder(contractsDir.entries, FALSE)
              IN  \A i \in DOMAIN files : files[i].name \in DOMAIN sources[r]

\* Discovery has returned a source that stands after an entry that is
\* neither a source file nor a directory that can be listed.
C14_Witness ==
    /\ calls[1] = "resolved"
    /\ Len(contractsDir.entries) > 1
    /\ ~HasSolidityExt(contractsDir.entries[1].name)
    /\ contractsDir.entries[1].node.kind # "dir"
    /\ DOMAIN sources[1] # {}

(***************************************************************************)
(* C15: a callback that has failed for a missing version, an unsupported   *)
(* version or missing compiler output has written nothing and has no write *)
(* under way, and the unit's artifact is as the callback read it.          *)
(***************************************************************************)
C15_FailedUnitLeavesArtifact ==
    \A r \in Runs, u \in Units :
        tasks[r][u].reason \in UnitFailures
        => /\ tasks[r][u].pc = "failed"
           /\ ~tasks[r][u].wrote /\ tasks[r][u].pending = NoFile
           /\ artifacts[ContractName(u)] = tasks[r][u].loaded

\* A unit with an artifact of an earlier build failed for missing compiler
\* output.
C15_Witness ==
    \E u \in Units :
        /\ tasks[1][u].pc = "failed"
        /\ tasks[1][u].reason = "NoContractOutput"
        /\ HasNetworks(tasks[1][u].loaded)
        /\ EntryOf(tasks[1][u].loaded, networkId).def

(***************************************************************************)
(* C16: after a callback has written, the artifact's entry for networkId   *)
(* holds the digest of the unit's text, the version the text names, the    *)
(* optimizer flag of the call, and the interface and the binary the        *)
(* compiler returned; the unit is then not stale for networkId.            *)
(***************************************************************************)
C16_EntryOfSuccessfulCompile ==
    \A r \in Runs, u \in Units :
        tasks[r][u].wrote =>
            LET file     == artifacts[ContractName(u)]
                entry    == EntryOf(file, networkId)
                text     == sources[r][u]
                contract == SolcContract(ContractName(u), optimizerEnabled)
            IN  /\ entry.def
                /\ entry.val.keccak256 = SourceHash(text)
                /\ entry.val.solc_version = parseSolidityVersion(text).val
                /\ entry.val.optimizer_enabled = optimizerEnabled
                /\ entry.val.abi = contract.interface.value
                /\ entry.val.unlinked_binary = <<"0x", contract.bytecode>>
                /\ ~StaleFor(file, networkId, text, optimizerEnabled)
                /\ ~LoadArtifact(file, networkId, SourceHash(text),
                                 optimizerEnabled).shouldCompile

\* A unit was compiled with the optimizer on and written over an artifact
\* that held an entry for networkId.
C16_Witness ==
    \E u \in Units :
        /\ tasks[1][u].wrote
        /\ optimizerEnabled = 1
        /\ EntryOf(tasks[1][u].loaded, networkId).def

(***************************************************************************)
(* C17: in one call there is a callback for a unit exactly when discovery  *)
(* returned its base name, callbacks of different units have different     *)
(* artifact files, no artifact file is written by more than one callback,  *)
(* and no two callbacks are between the read and the write of the same     *)
(* artifact file.                                                          *)
(***************************************************************************)
C17_OneCyclePerArtifact ==
    \A r \in Runs :
        calls[r] = "resolved" =>
            /\ \A u \in Units : tasks[r][u].pc # "idle" <=> u \in DOMAIN sources[r]
            /\ \A u, v \in DOMAIN sources[r] : u # v => ContractName(u) # ContractName(v)
            /\ \A n \in ArtifactNames :
                  Cardinality({u \in Units : tasks[r][u].wrote /\ ContractName(u) = n}) <= 1
            /\ \A u, v \in Units :
                  (/\ u # v
                   /\ tasks[r][u].pc \in {"reading", "writing"}
                   /\ tasks[r][v].pc \in {"reading", "writing"})
                  => ContractName(u) # ContractName(v)

\* Both units were discovered and each callback has written its artifact.
C17_Witness ==
    /\ DOMAIN sources[1] = Units
    /\ tasks[1][UnitA].wrote /\ tasks[1][UnitB].wrote
    /\ artifacts[ContractName(UnitA)] # artifacts[ContractName(UnitB)]

(***************************************************************************)
(* C18: the import callback answers a path with the text `sources` holds   *)
(* under the path's base name, and with no contents when `sources` holds   *)
(* no such unit.                                                           *)
(***************************************************************************)
C18_ImportsResolvedByBaseName ==
    \A r \in Runs, u \in Units :
        \A p \in DOMAIN tasks[r][u].imports :
            tasks[r][u].imports[p].contents =
                IF Basename(p) \in DOMAIN sources[r]
                THEN Defined(sources[r][Basename(p)])
                ELSE Undefined

(***************************************************************************)
(* C19: while compileAll discovers the sources, and whenever a callback    *)
(* has been started, the artifacts directory exists; a call that finds the *)
(* directory goes on to discovery and leaves directory and artifacts as    *)
(* they are.                                                               *)
(***************************************************************************)
C19_DirExistsWhileWorking ==
    \A r \in Runs :
        (\/ calls[r] \in {"discover", "resolved", "rejected"}
         \/ \E u \in Units : tasks[r][u].pc # "idle")
        => artifactsDirExists

C19_EnsureIsIdempotent ==
    \A r \in Runs :
        (calls[r] = "notCalled" /\ calls'[r] # "notCalled" /\ artifactsDirExists)
        => /\ calls'[r] = "discover"
           /\ artifactsDirExists' /\ artifacts' = artifacts

C19_DirectoryPrecondition == []C19_DirExistsWhileWorking /\ [][C19_EnsureIsIdempotent]_vars

\* Every artifact was missing and has been written by the call.
C19_Witness ==
    /\ calls[1] = "resolved"
    /\ \A u \in Units : tasks[1][u].wrote /\ tasks[1][u].loaded = NoFile

====
